---------------------------- MODULE Spec2Model ----------------------------
(***************************************************************************)
(* A model of cartography/graph/statement.py: GraphStatement (construction, *)
(* merge_parameters, as_dict / create_from_json) and its execution against  *)
(* a session, single-shot (_run) or iterative (_run_iterative and           *)
(* _run_iter_core under tenacity.retry).                                    *)
(*                                                                          *)
(* Python dicts are objects: a statement holds a reference to its parameter *)
(* dict, and the dict may also be held by the caller or by another          *)
(* statement.  The model keeps a heap of dicts and statements hold refs.    *)
(*                                                                          *)
(* Time is counted in ticks of 12.5 ms, so REPEAT_DELAY (0.025 s) is 2      *)
(* ticks.  Each Run keeps the time elapsed since tenacity started it.       *)
(***************************************************************************)
EXTENDS Integers, Sequences, FiniteSets

VARIABLES stmt, heap, cur, run, ops

vars == <<stmt, heap, cur, run, ops>>

---------------------------------------------------------------------------
(* Bounds of the model *)

\* The number of calls the callers make in one behaviour: constructions,
\* hydrations, merges and runs together.
MaxOps == 3

\* A session call takes 0..MaxCallTime ticks.
MaxCallTime == 2

\* The retry budget in ticks.  The source sets 1200 s (96000 ticks); the
\* model runs the same loop under a budget of a few delays.
CLEANUP_MAX_RETRY_TIME == 4

---------------------------------------------------------------------------
(* Program constants and value sets *)

REPEAT_DELAY == 2

Stmts == {"s1", "s2"}
NoStmt == "none"

LIMIT_SIZE == "LIMIT_SIZE"
Keys == {LIMIT_SIZE, "a"}
\* Batch sizes and LIMIT_SIZE values; the values of the other parameter.
Vals == {0, 1}
AVals == {1, 2}

\* A dict: a function from some of the keys to values.
Mappings ==
    {m \in UNION {[K -> Vals \cup AVals] : K \in SUBSET Keys} :
        /\ LIMIT_SIZE \in DOMAIN m => m[LIMIT_SIZE] \in Vals
        /\ "a" \in DOMAIN m => m["a"] \in AVals}
EmptyMap == [k \in {} |-> 0]

\* The dict the caller starts with: empty, or holding the other parameter.
CallerMaps == {EmptyMap, [a |-> 1]}

\* The dict the caller owns, and the dicts statements allocate.
CallerRef == "caller"
DictRefs == {"d1", "d2"}
Refs == {CallerRef} \cup DictRefs
None == "None"

Queries == {"q"}

NullStmt == [live |-> FALSE, query |-> "", parameters |-> None,
             iterative |-> FALSE, iterationsize |-> 0]

\* What session.run does on one call: a result handle whose single row has
\* TotalCompleted = tc, a result handle without such a row, or a raised fault.
TCVals == {0 - 1, 0, 1}
Handles == [kind : {"row"}, tc : TCVals]
             \cup {[kind |-> "malformed", tc |-> 0]}
SessionOutcomes == Handles \cup {[kind |-> "raise", tc |-> 0]}

NoFault == [exc |-> "none", last |-> 0]
NoReturn == [kind |-> "nothing", tc |-> 0]
ReturnsNone == [kind |-> "None", tc |-> 0]
NoSent == [query |-> "", parameters |-> EmptyMap]

NoOutcome == [kind |-> "nothing", tc |-> 0]

\* The run in progress: where it is, its mode, the ticks since it started,
\* the session calls made, the first and the last call's outcome, what the
\* last call was sent, what the caller of run() gets, and how the run before
\* it ended.
IdleRun == [pc |-> "idle", mode |-> "none", elapsed |-> 0, calls |-> 0,
            first |-> NoOutcome, last |-> NoOutcome, sent |-> NoSent,
            fault |-> NoFault, returned |-> NoReturn, prev |-> "none"]

---------------------------------------------------------------------------
(* Dicts *)

\* m[k] = v on a dict.
SetItem(m, k, v) == [x \in (DOMAIN m) \cup {k} |-> IF x = k THEN v ELSE m[x]]

\* dict.get(k, default)
Get(m, k, default) == IF k \in DOMAIN m THEN m[k] ELSE default

\* A merge in which the keys already present win.
merge_value_old_wins(old, extra) ==
    [x \in (DOMAIN old) \cup (DOMAIN extra) |->
        IF x \in DOMAIN old THEN old[x] ELSE extra[x]]

\* A merge that keeps the merged mapping alone.
merge_value_drops_old(old, extra) == extra

\* tmp = old.copy(); tmp.update(extra)
merge_value(old, extra) ==
    [x \in (DOMAIN old) \cup (DOMAIN extra) |->
        IF x \in DOMAIN extra THEN extra[x] ELSE old[x]]

\* An injection that leaves a LIMIT_SIZE already in the dict as it is.
inject_if_absent(m, n) == IF LIMIT_SIZE \in DOMAIN m THEN m ELSE SetItem(m, LIMIT_SIZE, n)

\* An injection that replaces the dict by one holding LIMIT_SIZE alone.
inject_only_limit_size(m, n) == [k \in {LIMIT_SIZE} |-> n]

\* self.parameters["LIMIT_SIZE"] = self.iterationsize
inject_limit_size(m, n) == SetItem(m, LIMIT_SIZE, n)

\* `not parameters`: None and the empty dict are falsy.
Falsy(p) == p = None \/ heap[p] = EmptyMap

Params(s) == heap[stmt[s].parameters]

Live == {s \in Stmts : stmt[s].live}

\* The ref of a dict newly allocated for statement s: one no other live
\* statement holds (the dict s held before may be reclaimed).
NewRef(s) ==
    CHOOSE r \in DictRefs :
        \A t \in Live \ {s} : stmt[t].parameters # r

\* Dicts no statement holds any more are reclaimed.
Collect(h, st) ==
    [r \in Refs |->
        IF r \in DictRefs /\ \A t \in Stmts : ~(st[t].live /\ st[t].parameters = r)
        THEN EmptyMap ELSE h[r]]

\* One more call by a caller.  Execution is single-threaded and run() blocks
\* its caller, so a call starts only when no run is in progress.
Op == cur = NoStmt /\ ops < MaxOps /\ ops' = ops + 1

TypeOK ==
    /\ stmt \in [Stmts -> [live : BOOLEAN, query : Queries \cup {""},
                           parameters : Refs \cup {None},
                           iterative : BOOLEAN, iterationsize : Vals]]
    /\ heap \in [Refs -> Mappings]
    /\ cur \in Stmts \cup {NoStmt}
    /\ run.pc \in {"idle", "RUNNING", "WAITING", "DONE", "EXHAUSTED", "FAULTED", "RETURNED"}

---------------------------------------------------------------------------
(* GraphStatement.__init__ *)

\* The statement built by __init__(query, parameters = p, iterative, n) in
\* slot s, and the heap after it: p is None or a reference to a dict.
init_ref(s, p) == IF Falsy(p) THEN NewRef(s) ELSE p

\* An __init__ that keeps a LIMIT_SIZE the caller's dict already holds.
init_dict_setdefault(p, n) ==
    IF ~Falsy(p) /\ LIMIT_SIZE \in DOMAIN heap[p]
    THEN heap[p]
    ELSE inject_limit_size(IF Falsy(p) THEN EmptyMap ELSE heap[p], n)

init_dict(p, n) ==
    inject_limit_size(IF Falsy(p) THEN EmptyMap ELSE heap[p], n)

init_stmt(s, q, p, it, n) ==
    [live |-> TRUE, query |-> q, parameters |-> init_ref(s, p),
     iterative |-> it, iterationsize |-> n]

DoInit(s, q, p, it, n) ==
    /\ Op
    /\ stmt' = [stmt EXCEPT ![s] = init_stmt(s, q, p, it, n)]
    /\ heap' = Collect([heap EXCEPT ![init_ref(s, p)] = init_dict(p, n)], stmt')

Construct(s) ==
    /\ \E q \in Queries, p \in {None, CallerRef}, it \in BOOLEAN, n \in Vals :
          DoInit(s, q, p, it, n)
    /\ UNCHANGED <<cur, run>>

---------------------------------------------------------------------------
(* GraphStatement.merge_parameters *)

\* A merge that updates the dict the statement holds, in place.
merge_parameters_in_place(s, extra) ==
    /\ stmt[s].live
    /\ Op
    /\ heap' = [heap EXCEPT ![stmt[s].parameters] = merge_value(Params(s), extra)]
    /\ UNCHANGED <<stmt, cur, run>>

\* tmp = self.parameters.copy(); tmp.update(parameters); self.parameters = tmp
\* The merged dict is a new object; the dict held before is left as it was.
merge_parameters(s, extra) ==
    /\ stmt[s].live
    /\ Op
    /\ stmt' = [stmt EXCEPT ![s].parameters = NewRef(s)]
    /\ heap' = Collect([heap EXCEPT ![NewRef(s)] = merge_value(Params(s), extra)], stmt')
    /\ UNCHANGED <<cur, run>>

---------------------------------------------------------------------------
(* GraphStatement.as_dict and GraphStatement.create_from_json *)

Fields == {"query", "parameters", "iterative", "iterationsize"}

\* A document that leaves the batch size out.
as_dict_no_size(s) ==
    [f \in Fields \ {"iterationsize"} |->
        CASE f = "query" -> stmt[s].query
          [] f = "parameters" -> stmt[s].parameters
          [] OTHER -> stmt[s].iterative]

\* The document of a statement: its parameters entry is the statement's own
\* dict, not a copy.
as_dict(s) ==
    [f \in Fields |->
        CASE f = "query" -> stmt[s].query
          [] f = "parameters" -> stmt[s].parameters
          [] f = "iterative" -> stmt[s].iterative
          [] OTHER -> stmt[s].iterationsize]

\* Documents a caller may hand to create_from_json: any of the fields may be
\* missing; a field that is present holds a value other than its default,
\* and a parameters entry is the caller's dict.
InputDocs ==
    {[f \in F |->
        CASE f = "query" -> "q"
          [] f = "parameters" -> CallerRef
          [] f = "iterative" -> TRUE
          [] OTHER -> 1] : F \in SUBSET Fields}

\* cls(json_obj.get("query", ""), json_obj.get("parameters", {}),
\*     json_obj.get("iterative", False), json_obj.get("iterationsize", 0))
\* The default {} is a new empty dict, which __init__ finds falsy as it does
\* None.
create_from_json(t, doc) ==
    /\ DoInit(t, Get(doc, "query", ""), Get(doc, "parameters", None),
              Get(doc, "iterative", FALSE), Get(doc, "iterationsize", 0))
    /\ UNCHANGED <<cur, run>>

\* Hydrate(ToDocument(s)) into slot t.
HydrateFrom(s, t) ==
    /\ s # t
    /\ stmt[s].live
    /\ create_from_json(t, as_dict(s))

HydrateInput(t) == \E doc \in InputDocs : create_from_json(t, doc)

---------------------------------------------------------------------------
(* GraphStatement.run, _run, _run_iterative, _run_iter_core *)

\* A dispatch that takes the iterative path whatever the flag.
run_mode_always_iterative(iterative) == "iterative"

\* run() dispatches on self.iterative.
run_mode(iterative) == IF iterative THEN "iterative" ELSE "single"

\* A run that, after a run that ended EXHAUSTED, goes on with a clock that
\* has already used the budget up.
begin_run_stale(r, iterative) ==
    [IdleRun EXCEPT !.pc = "RUNNING", !.mode = run_mode(iterative), !.prev = r.prev,
                    !.elapsed = IF r.prev = "EXHAUSTED" THEN CLEANUP_MAX_RETRY_TIME ELSE 0]

\* The state in which a run starts, r being what the run before it left:
\* tenacity makes a new retry state, with its own start time and attempt
\* count, for every call of _run_iter_core.
begin_run(r, iterative) ==
    [IdleRun EXCEPT !.pc = "RUNNING", !.mode = run_mode(iterative), !.prev = r.prev]

\* run() entry.  An iterative run first re-injects LIMIT_SIZE into the
\* statement's dict, in place, and tenacity starts its clock.
RunStart(s) ==
    /\ stmt[s].live
    /\ Op
    /\ cur' = s
    /\ run' = begin_run(run, stmt[s].iterative)
    /\ heap' = IF run_mode(stmt[s].iterative) = "iterative"
               THEN [heap EXCEPT ![stmt[s].parameters] =
                        inject_limit_size(Params(s), stmt[s].iterationsize)]
               ELSE heap
    /\ UNCHANGED stmt

\* What _run hands to the session: self.query and self.parameters (the dict
\* as it is at the time of the call).
run_call(s) == [query |-> stmt[s].query, parameters |-> Params(s)]

\* What _run returns: the handle the session returned.
run_single_result(h) == h

\* What run() returns: it calls _run or _run_iterative and returns nothing.
run_result(h) == ReturnsNone

\* An attempt that reads a missing TotalCompleted as 1 instead of raising.
attempt_outcome_default(o) ==
    CASE o.kind = "raise" -> [failed |-> TRUE, exc |-> "ExecutionFault", value |-> 0]
      [] o.kind = "malformed" -> [failed |-> FALSE, exc |-> "none", value |-> 1]
      [] OTHER -> [failed |-> FALSE, exc |-> "none", value |-> o.tc]

\* total_completed = self._run(session).single()['TotalCompleted']: the
\* outcome tenacity sees of one attempt, a value or a raised exception.
attempt_outcome(o) ==
    CASE o.kind = "raise" -> [failed |-> TRUE, exc |-> "ExecutionFault", value |-> 0]
      [] o.kind = "malformed" -> [failed |-> TRUE, exc |-> "ProtocolFault", value |-> 0]
      [] OTHER -> [failed |-> FALSE, exc |-> "none", value |-> run_single_result(o).tc]

\* A retry predicate that retries every returned value, 0 included.
retry_always(a) == ~a.failed

\* A retry predicate that also retries a raised exception.
retry_on_exception(a) == a.failed \/ a.value # 0

\* A retry predicate that retries positive values only.
retry_if_positive(a) == ~a.failed /\ a.value > 0

\* tenacity.retry_if_result(lambda x: x != 0): never retries a raised
\* exception.
retry_if_result(a) == ~a.failed /\ a.value # 0

\* A stop condition that needs the budget to be exceeded, not reached.
stop_after_delay_late(elapsed) == elapsed > CLEANUP_MAX_RETRY_TIME

\* tenacity.stop_after_delay(CLEANUP_MAX_RETRY_TIME)
stop_after_delay(elapsed) == elapsed >= CLEANUP_MAX_RETRY_TIME

\* tenacity.wait_fixed(REPEAT_DELAY)
wait_fixed == REPEAT_DELAY

\* tenacity's decision after an attempt.
iter_next(a, elapsed) ==
    IF retry_if_result(a)
    THEN IF stop_after_delay(elapsed) THEN "EXHAUSTED" ELSE "WAITING"
    ELSE IF a.failed THEN "FAULTED" ELSE "DONE"

\* A RetryError built without the last attempt's value.
iter_fault_no_attempt(a, elapsed) ==
    CASE iter_next(a, elapsed) = "EXHAUSTED" -> [exc |-> "RetryError", last |-> 0]
      [] iter_next(a, elapsed) = "FAULTED" -> [exc |-> a.exc, last |-> 0]
      [] OTHER -> NoFault

\* What the caller of run() gets raised: the attempt's own exception, or a
\* RetryError holding the last attempt.
iter_fault(a, elapsed) ==
    CASE iter_next(a, elapsed) = "EXHAUSTED" -> [exc |-> "RetryError", last |-> a.value]
      [] iter_next(a, elapsed) = "FAULTED" -> [exc |-> a.exc, last |-> 0]
      [] OTHER -> NoFault

single_next(o) == IF o.kind = "raise" THEN "FAULTED" ELSE "RETURNED"

single_fault(o) ==
    IF o.kind = "raise" THEN [exc |-> "ExecutionFault", last |-> 0] ELSE NoFault

\* One session call of the current run, taking d ticks, and what follows it.
AttemptWith(o, d) ==
    /\ cur # NoStmt
    /\ run.pc = "RUNNING"
    /\ LET el == run.elapsed + d
           a == attempt_outcome(o)
           called == [run EXCEPT !.elapsed = el, !.calls = run.calls + 1,
                                 !.first = IF run.calls = 0 THEN o ELSE run.first,
                                 !.last = o, !.sent = run_call(cur)]
       IN run' =
            IF run.mode = "iterative"
            THEN [called EXCEPT !.pc = iter_next(a, el),
                                !.fault = iter_fault(a, el),
                                !.returned = IF iter_next(a, el) = "DONE"
                                             THEN run_result(o) ELSE NoReturn]
            ELSE [called EXCEPT !.pc = single_next(o),
                                !.fault = single_fault(o),
                                !.returned = IF single_next(o) = "RETURNED"
                                             THEN run_result(o) ELSE NoReturn]
    /\ UNCHANGED <<stmt, heap, cur, ops>>

Attempt == \E o \in SessionOutcomes, d \in 0..MaxCallTime : AttemptWith(o, d)

\* A wait that grows with the attempts made.
Wait_growing ==
    /\ run.pc = "WAITING"
    /\ run' = [run EXCEPT !.pc = "RUNNING", !.elapsed = run.elapsed + run.calls * wait_fixed]
    /\ UNCHANGED <<stmt, heap, cur, ops>>

\* A wait that never ends: the run stays where it is.
Wait_never_ends ==
    /\ run.pc = "WAITING"
    /\ UNCHANGED vars

\* The fixed wait between two attempts.
Wait ==
    /\ run.pc = "WAITING"
    /\ run' = [run EXCEPT !.pc = "RUNNING", !.elapsed = run.elapsed + wait_fixed]
    /\ UNCHANGED <<stmt, heap, cur, ops>>

Terminal == {"DONE", "EXHAUSTED", "FAULTED", "RETURNED"}

\* run() returns to (or raises into) its caller.
Return ==
    /\ run.pc \in Terminal
    /\ cur' = NoStmt
    /\ run' = [IdleRun EXCEPT !.prev = run.pc]
    /\ UNCHANGED <<stmt, heap, ops>>

---------------------------------------------------------------------------

Init ==
    /\ stmt = [s \in Stmts |-> NullStmt]
    /\ \E m \in CallerMaps : heap = [r \in Refs |-> IF r = CallerRef THEN m ELSE EmptyMap]
    /\ cur = NoStmt
    /\ run = IdleRun
    /\ ops = 0

Next ==
    \/ \E s \in Stmts : Construct(s)
    \/ \E s \in Stmts, extra \in Mappings : merge_parameters(s, extra)
    \/ \E s, t \in Stmts : HydrateFrom(s, t)
    \/ \E t \in Stmts : HydrateInput(t)
    \/ \E s \in Stmts : RunStart(s)
    \/ Attempt
    \/ Wait
    \/ Return

Spec == Init /\ [][Next]_vars

\* The run under a session whose calls return and a clock that runs on: a
\* session call that can be made is made (session.run returns or raises), and
\* a wait that has begun ends (time.sleep returns).  Nothing is assumed of
\* the caller, who may never make another call.
FairSpec == Spec /\ WF_vars(Attempt) /\ WF_vars(Wait)

---------------------------------------------------------------------------
(* Properties *)

Running == cur # NoStmt
Iterative == Running /\ stmt[cur].iterative
Single == Running /\ ~stmt[cur].iterative

IsRow(o) == o.kind = "row"
NonZeroRow(o) == o.kind = "row" /\ o.tc # 0
ZeroRow(o) == o.kind = "row" /\ o.tc = 0

CeilDiv(b, d) == (b + d - 1) \div d

\* A statement as a value: its fields, with the contents of its dict.
StmtValue(s) ==
    [query |-> stmt[s].query, parameters |-> Params(s),
     iterative |-> stmt[s].iterative, iterationsize |-> stmt[s].iterationsize]

\* The entries of a dict other than LIMIT_SIZE.
Others(m) == [k \in (DOMAIN m) \ {LIMIT_SIZE} |-> m[k]]

\* C1: an iterative run whose k-th session call is the first to return
\* TotalCompleted = 0 ends in DONE with no fault at that call: a further call
\* or wait only ever follows a non-zero result, and nothing but the return to
\* the caller follows DONE, so the run makes exactly k calls.
C1_IterativeConverges ==
    /\ [](Iterative /\ run.calls > 0 =>
            /\ ZeroRow(run.last) => run.pc = "DONE" /\ run.fault = NoFault
            /\ run.pc \in {"RUNNING", "WAITING"} => NonZeroRow(run.last))
    /\ [][run.pc = "DONE" => run'.pc = "idle"]_vars

\* C1 witness: a run that converged at its third call.
C1_Witness ==
    /\ Iterative /\ run.pc = "DONE" /\ run.calls = 3
    /\ ZeroRow(run.last) /\ NonZeroRow(run.first)

C3_MalformedFaults ==
    /\ [](Iterative /\ run.calls > 0 /\ run.last.kind = "malformed" =>
            /\ run.pc = "FAULTED"
            /\ run.fault = [exc |-> "ProtocolFault", last |-> 0]
            /\ run.elapsed >= (run.calls - 1) * REPEAT_DELAY
            /\ run.elapsed <= (run.calls - 1) * REPEAT_DELAY + run.calls * MaxCallTime)
    /\ [][run.pc = "FAULTED" => run'.pc = "idle"]_vars

\* C3 witness: a malformed result on the first attempt, no delay taken.
C3_Witness ==
    /\ Iterative /\ run.pc = "FAULTED" /\ run.last.kind = "malformed"
    /\ run.calls = 1 /\ run.elapsed = 0

\* C4 as stated: run() on a non-iterative statement returns the result handle
\* the session returned for its call.
C4_ReturnsHandle ==
    Single /\ run.pc = "RETURNED" => run.returned = run.last

\* C5: a run of a non-iterative statement makes one session call, with the
\* statement's query and the contents of its parameters, whatever comes back:
\* it never waits, never calls again and never ends as an iterative run does.
C5_SingleCall ==
    Single =>
        /\ run.calls <= 1
        /\ run.pc \in {"RUNNING", "RETURNED", "FAULTED"}
        /\ run.pc = "RUNNING" => run.calls = 0 /\ run.elapsed = 0
        /\ run.pc \in {"RETURNED", "FAULTED"} =>
              /\ run.calls = 1
              /\ run.elapsed <= MaxCallTime
              /\ run.sent = [query |-> stmt[cur].query, parameters |-> Params(cur)]
              /\ (run.pc = "FAULTED") = (run.last.kind = "raise")

\* C5 witness: a non-iterative run that returned after one call reporting a
\* non-zero TotalCompleted.
C5_Witness ==
    /\ Single /\ run.pc = "RETURNED" /\ run.calls = 1
    /\ NonZeroRow(run.last) /\ "a" \in DOMAIN run.sent.parameters

\* C6 as stated: the statement hydrated from a statement's document equals
\* that statement field for field, parameters included.
C6_RoundTripExact ==
    [][\A s, t \in Stmts : HydrateFrom(s, t) => StmtValue(t)' = StmtValue(s)]_vars

\* C6 amended: the statement hydrated from the document of s has the query,
\* iterative flag and batch size of s and the parameters of s with LIMIT_SIZE
\* set to the batch size; so it equals s exactly when the LIMIT_SIZE entry of
\* s was its batch size.
C6_RoundTrip ==
    [][\A s, t \in Stmts : HydrateFrom(s, t) =>
          /\ StmtValue(t)' = [StmtValue(s) EXCEPT
                                 !.parameters = SetItem(@, LIMIT_SIZE, stmt[s].iterationsize)]
          /\ (StmtValue(t)' = StmtValue(s)) <=>
                (Params(s)[LIMIT_SIZE] = stmt[s].iterationsize)]_vars

\* C6 witness: two statements sharing one statement-allocated dict, which
\* only a hydration from a statement's document produces, the source having
\* merged parameters before.
C6_Witness ==
    /\ stmt["s1"].live /\ stmt["s2"].live
    /\ stmt["s1"].parameters = stmt["s2"].parameters
    /\ stmt["s1"].parameters \in DictRefs
    /\ "a" \in DOMAIN Params("s1")

Constructs(s) ==
    \/ Construct(s)
    \/ HydrateInput(s)
    \/ \E r \in Stmts : HydrateFrom(r, s)

\* C7 as stated: after a construction and after a merge the parameters hold
\* LIMIT_SIZE with the batch size as its value.
C7_LimitSizeIsBatchSize ==
    [][\A s \in Stmts :
          Constructs(s) \/ (\E extra \in Mappings : merge_parameters(s, extra)) =>
              /\ LIMIT_SIZE \in DOMAIN Params(s)'
              /\ Params(s)'[LIMIT_SIZE] = stmt'[s].iterationsize]_vars

\* C7 amended: the parameters of a statement always hold the key LIMIT_SIZE;
\* a construction sets its value to the batch size; a merge sets it to the
\* value the merged mapping gives for LIMIT_SIZE, and leaves it as it was
\* when that mapping has no such key.
C7_LimitSizeKey ==
    /\ [](\A s \in Live : LIMIT_SIZE \in DOMAIN Params(s))
    /\ [][cur' = NoStmt /\ ops' # ops =>
            \A s \in Stmts :
               /\ Constructs(s) => Params(s)'[LIMIT_SIZE] = stmt'[s].iterationsize
               /\ \A extra \in Mappings : merge_parameters(s, extra) =>
                     Params(s)'[LIMIT_SIZE] =
                         IF LIMIT_SIZE \in DOMAIN extra THEN extra[LIMIT_SIZE]
                         ELSE Params(s)[LIMIT_SIZE]]_vars

\* C7 witness: a statement holding a dict of its own (a merged one) whose
\* LIMIT_SIZE is not its batch size.
C7_Witness ==
    \E s \in Live :
        /\ stmt[s].parameters \in DictRefs
        /\ \A t \in Live \ {s} : stmt[t].parameters # stmt[s].parameters
        /\ Params(s)[LIMIT_SIZE] # stmt[s].iterationsize

\* C8: no step of a run (its start, a session call, a wait, its return)
\* changes the statement's query, iterative flag or batch size, nor any entry
\* of its parameters other than LIMIT_SIZE.
C8_RunFrame ==
    [][\A s \in Stmts : (cur = s \/ cur' = s) =>
          /\ stmt'[s].query = stmt[s].query
          /\ stmt'[s].iterative = stmt[s].iterative
          /\ stmt'[s].iterationsize = stmt[s].iterationsize
          /\ Others(Params(s))' = Others(Params(s))]_vars

\* C8 witness: an iterative run, ended, of a statement that has another
\* parameter and whose LIMIT_SIZE the run has re-injected.
C8_Witness ==
    /\ Iterative /\ run.pc \in {"DONE", "EXHAUSTED", "FAULTED"}
    /\ "a" \in DOMAIN Params(cur)
    /\ stmt[cur].parameters = CallerRef
    /\ \E t \in Live \ {cur} : stmt[t].parameters = CallerRef
                                 /\ stmt[t].iterationsize # stmt[cur].iterationsize

\* C9: a fault the session raises on attempt k ends the run at that attempt,
\* FAULTED with that very fault and not a retry-budget fault; a non-iterative
\* run has then made its one call.
C9_ExecutionFaultPropagates ==
    /\ [](Running /\ run.calls > 0 /\ run.last.kind = "raise" =>
            /\ run.pc = "FAULTED"
            /\ run.fault = [exc |-> "ExecutionFault", last |-> 0]
            /\ Single => run.calls = 1)
    /\ [][run.pc = "FAULTED" => run'.pc = "idle"]_vars

\* C9 witness: the session raised on the second attempt of an iterative run.
C9_Witness ==
    /\ Iterative /\ run.pc = "FAULTED" /\ run.last.kind = "raise"
    /\ run.calls = 2

\* C10: the retry-budget fault of a run that ends in EXHAUSTED carries the
\* TotalCompleted of the last attempt made, a non-zero value.
C10_CarriesLastAttempt ==
    Iterative /\ run.pc = "EXHAUSTED" =>
        /\ run.fault.exc = "RetryError"
        /\ IsRow(run.last)
        /\ run.fault.last = run.last.tc
        /\ run.fault.last # 0

\* C10 witness: a run EXHAUSTED after several attempts whose first attempt
\* reported another value than its last.
C10_Witness ==
    /\ Iterative /\ run.pc = "EXHAUSTED" /\ run.calls >= 2
    /\ run.first.tc # run.last.tc
    /\ run.fault.last = run.last.tc

\* The dict arguments a construction may be given: none, the caller's dict,
\* or (through a statement's document) a statement's dict.
ParamArgs == {None} \cup Refs

\* C11: right after __init__(q, p, iterative, n) the statement's parameters
\* hold LIMIT_SIZE = n, whatever p is (None, empty, or already holding
\* LIMIT_SIZE with any value), and hold every other entry of p, and no more.
C11_ConstructInjects ==
    [][cur' = NoStmt /\ ops' # ops =>
         \A s \in Stmts, q \in Queries \cup {""}, p \in ParamArgs,
            it \in BOOLEAN, n \in Vals :
            DoInit(s, q, p, it, n) /\ UNCHANGED <<cur, run>> =>
                /\ LIMIT_SIZE \in DOMAIN Params(s)'
                /\ Params(s)'[LIMIT_SIZE] = n
                /\ Others(Params(s)') =
                      IF p = None THEN EmptyMap ELSE Others(heap[p])]_vars

\* C11 witness: two statements built on the caller's dict with different
\* batch sizes: the second was given a dict that already held LIMIT_SIZE with
\* another value, and another entry.
C11_Witness ==
    /\ stmt["s1"].live /\ stmt["s2"].live
    /\ stmt["s1"].parameters = CallerRef /\ stmt["s2"].parameters = CallerRef
    /\ stmt["s1"].iterationsize # stmt["s2"].iterationsize
    /\ "a" \in DOMAIN heap[CallerRef]

\* C12: after merge_parameters(extra) the statement's parameters hold exactly
\* the keys held before and the keys of extra; every key of extra has the
\* value extra gives it, and every other key the value it had.  Holding of
\* every merge, this makes a later merge win over an earlier one.
C12_MergeOverlays ==
    [][cur' = NoStmt /\ ops' # ops =>
         \A s \in Stmts, extra \in Mappings :
            merge_parameters(s, extra) =>
                /\ DOMAIN Params(s)' = (DOMAIN Params(s)) \cup (DOMAIN extra)
                /\ \A k \in DOMAIN extra : Params(s)'[k] = extra[k]
                /\ \A k \in (DOMAIN Params(s)) \ (DOMAIN extra) :
                      Params(s)'[k] = Params(s)[k]]_vars

\* C12 witness: a statement holding a merged dict of its own in which a merge
\* won over the LIMIT_SIZE its construction had set, and gave the other
\* parameter a value no caller's dict started with.
C12_Witness ==
    \E s \in Live :
        /\ stmt[s].parameters \in DictRefs
        /\ \A t \in Live \ {s} : stmt[t].parameters # stmt[s].parameters
        /\ Params(s)[LIMIT_SIZE] # stmt[s].iterationsize
        /\ "a" \in DOMAIN Params(s) /\ Params(s)["a"] = 2

\* C13 as stated: a construction, a hydration or the start of a run of one
\* statement leaves the parameters of every other statement as they were.
C13_NoSharedState ==
    [][ops' # ops =>
         \A s, t \in Stmts :
            s # t /\ stmt[s].live /\ (Constructs(t) \/ RunStart(t)) =>
                Params(s)' = Params(s)]_vars

\* C14 as stated: the dict the caller handed to a construction or put in a
\* document is never changed, by the construction or by anything later.
C14_CallerMappingUnchanged ==
    [][heap'[CallerRef] = heap[CallerRef]]_vars


\* C15: whatever merges came before, every session call of a run of an
\* iterative statement is sent LIMIT_SIZE = the batch size; the start of a
\* run of a non-iterative statement leaves its parameters as the merges left
\* them, and its one session call is sent them so, LIMIT_SIZE included.
C15_LimitSizeSent ==
    /\ [](Running /\ run.calls > 0 =>
            /\ LIMIT_SIZE \in DOMAIN run.sent.parameters
            /\ Iterative => run.sent.parameters[LIMIT_SIZE] = stmt[cur].iterationsize
            /\ Single => run.sent.parameters = Params(cur))
    /\ [][ops' # ops =>
            \A s \in Stmts : RunStart(s) /\ ~stmt[s].iterative =>
                Params(s)' = Params(s)]_vars

\* C15 witness: a non-iterative statement whose merge set LIMIT_SIZE to
\* another value than its batch size, and whose run sent that value.
C15_Witness ==
    /\ Single /\ run.calls = 1
    /\ stmt[cur].parameters \in DictRefs
    /\ run.sent.parameters[LIMIT_SIZE] # stmt[cur].iterationsize


IterTerminal == {"DONE", "EXHAUSTED", "FAULTED"}

\* C16: an iterative run is running, waiting, or in one of DONE, EXHAUSTED
\* and FAULTED; it leaves RUNNING only to wait or to one of these three; from
\* them nothing follows but the return to the caller, with no further session
\* call or wait; and, its session calls returning and its waits ending, every
\* iterative run reaches one of the three.
C16_IterativeTerminates ==
    /\ [](Iterative => run.pc \in {"RUNNING", "WAITING"} \cup IterTerminal)
    /\ [][Iterative /\ run.pc = "RUNNING" =>
            /\ run'.pc \in {"WAITING"} \cup IterTerminal
            /\ run'.calls = run.calls + 1]_vars
    /\ [][Iterative /\ run.pc \in IterTerminal =>
            cur' = NoStmt /\ run'.pc = "idle" /\ run'.calls = 0]_vars
    /\ (Iterative /\ run.pc \in {"RUNNING", "WAITING"})
          ~> (Iterative /\ run.pc \in IterTerminal)

\* C16 witness: a run that ended EXHAUSTED at its third session call, every
\* call having returned a non-zero TotalCompleted at once.
C16_Witness ==
    /\ Iterative /\ run.pc = "EXHAUSTED" /\ run.calls = 3
    /\ run.elapsed = CLEANUP_MAX_RETRY_TIME


\* C17: an iterative run that has ended returns to its caller without a fault
\* (DONE) exactly when its last attempt returned TotalCompleted = 0, whatever
\* time has elapsed; after a last attempt that returned a positive or a
\* negative value, or failed, it has ended with a fault.
C17_SuccessOnlyOnZero ==
    Iterative /\ run.pc \in IterTerminal =>
        /\ (run.pc = "DONE") = ZeroRow(run.last)
        /\ (run.fault = NoFault) = ZeroRow(run.last)
        /\ (run.returned # NoReturn) = ZeroRow(run.last)

\* C17 witness: a run that ended in DONE on a zero result that came when the
\* budget had already elapsed.
C17_Witness ==
    /\ Iterative /\ run.pc = "DONE" /\ run.calls >= 2
    /\ run.elapsed > CLEANUP_MAX_RETRY_TIME
    /\ run.first.tc < 0


\* C18: in an iterative run a session call is followed by a wait only when
\* the run goes on; a wait takes REPEAT_DELAY, the same before every attempt,
\* makes no session call and is followed by the next session call; a retry is
\* sent the query and parameters the first attempt was sent; no wait comes
\* before the first attempt, nor after the attempt that ends the run.
C18_FixedWaitBetweenCalls ==
    /\ [](Iterative =>
            /\ run.pc = "RUNNING" /\ run.calls = 0 => run.elapsed = 0
            /\ run.pc = "WAITING" => run.calls > 0
            /\ run.elapsed >= (IF run.pc = "RUNNING" THEN run.calls ELSE run.calls - 1)
                                  * REPEAT_DELAY
            /\ run.elapsed <= (IF run.pc = "RUNNING" THEN run.calls ELSE run.calls - 1)
                                  * REPEAT_DELAY + run.calls * MaxCallTime)
    /\ [][Iterative /\ run.pc = "WAITING" =>
            /\ run'.pc = "RUNNING"
            /\ run'.elapsed = run.elapsed + REPEAT_DELAY
            /\ run'.calls = run.calls /\ run'.sent = run.sent]_vars
    /\ [][Iterative /\ run.pc = "RUNNING" =>
            /\ run'.calls = run.calls + 1
            /\ run'.pc \in {"WAITING"} \cup IterTerminal
            /\ run.calls > 0 => run'.sent = run.sent]_vars
    /\ [][Iterative /\ run.pc \in IterTerminal =>
            run'.pc = "idle" /\ run'.elapsed = 0]_vars

\* C18 witness: a third attempt about to be made, two waits and no more
\* behind it, every session call having returned at once.
C18_Witness ==
    /\ Iterative /\ run.pc = "RUNNING" /\ run.calls = 2
    /\ run.elapsed = 2 * REPEAT_DELAY
    /\ "a" \in DOMAIN run.sent.parameters


\* C19: a run started after an earlier run ended, however that one ended
\* (DONE, EXHAUSTED, FAULTED), starts in RUNNING with no time elapsed, no
\* attempt made and no fault or result kept from the earlier run: its budget
\* and attempt count are its own.
C19_FreshRun ==
    /\ [][ops' # ops =>
            \A s \in Stmts : RunStart(s) =>
                /\ run'.pc = "RUNNING"
                /\ run'.elapsed = 0 /\ run'.calls = 0
                /\ run'.first = NoOutcome /\ run'.last = NoOutcome
                /\ run'.fault = NoFault /\ run'.returned = NoReturn
                /\ run'.sent = NoSent]_vars
    /\ [](Iterative /\ run.pc = "EXHAUSTED" =>
            run.calls > 0 /\ run.elapsed >= CLEANUP_MAX_RETRY_TIME)
    /\ [](Iterative /\ run.pc = "WAITING" => run.elapsed < CLEANUP_MAX_RETRY_TIME)

\* C19 witness: a run that follows a run ended EXHAUSTED and waits for its
\* second attempt with time left of its own budget.
C19_Witness ==
    /\ Iterative /\ run.prev = "EXHAUSTED"
    /\ run.pc = "WAITING" /\ run.calls = 1 /\ run.elapsed = 0


\* C20: merge_parameters gives the statement a dict that nobody else holds
\* and leaves every dict held by somebody else as it was: the caller's dict
\* (be it the dict the statement held or the mapping passed in) and the dict
\* of every other statement, among them one shared with the statement before
\* the merge, keep their keys and values.
C20_MergeReplaces ==
    [][cur' = NoStmt /\ ops' # ops =>
         \A s \in Stmts, extra \in Mappings :
            merge_parameters(s, extra) =>
                /\ heap'[CallerRef] = heap[CallerRef]
                /\ stmt'[s].parameters # CallerRef
                /\ \A t \in Live \ {s} :
                      /\ stmt'[t] = stmt[t]
                      /\ Params(t)' = Params(t)
                      /\ stmt'[t].parameters # stmt'[s].parameters]_vars

\* C20 witness: after three calls, a statement holds a merged dict of its
\* own, with a LIMIT_SIZE and another parameter that only a merge gives,
\* while the other statement and the caller hold the caller's dict as the
\* construction on it left it.
C20_Witness ==
    /\ ops = MaxOps
    /\ stmt["s1"].live /\ stmt["s2"].live
    /\ stmt["s1"].parameters \in DictRefs
    /\ stmt["s2"].parameters = CallerRef
    /\ Params("s1")[LIMIT_SIZE] # stmt["s1"].iterationsize
    /\ "a" \in DOMAIN Params("s1") /\ Params("s1")["a"] = 2
    /\ "a" \in DOMAIN Params("s2") /\ Params("s2")["a"] = 1
    /\ Params("s2")[LIMIT_SIZE] = stmt["s2"].iterationsize

=============================================================================
